---- MODULE Spec2Model ----
(***************************************************************************)
(* cftoken: the configuration-resolution and policy-construction engine.   *)
(*                                                                         *)
(* The model follows cmd/cftoken/main.go run() from the point where the    *)
(* flags are parsed (line 158) to its return, together with the helpers    *)
(* it calls in internal/config, internal/template and internal/cloudflare. *)
(*                                                                         *)
(* A Go string is a sequence of one-character strings, so that trimming,   *)
(* splitting, joining and key normalisation are computed, not assumed.     *)
(* The package functions normalizeCIDRList, matchPermissionGroups,         *)
(* LoadZoneConfig and ResolveZoneID are also examined on their own, each   *)
(* under a specification that calls it on bounded arguments.               *)
(* Template texts are opaque to the repository (only text/template reads   *)
(* them) and are TLA+ strings.  A nil pointer / absent value is the empty  *)
(* sequence and a present one a one-element sequence.                      *)
(***************************************************************************)
EXTENDS Integers, Sequences, FiniteSets, TLC

----------------------------------------------------------------------------
(* Bounds of the exploration *)

\* creation instants 0..MaxClock, in ticks
MaxClock == 2
\* -ttl overrides 0..MaxTTLFlag, in hours
MaxTTLFlag == 1
\* longest list handed to normalizeCIDRList on its own
MaxCIDRList == 3
\* longest catalog and longest input list handed to matchPermissionGroups
MaxCatalog == 2
MaxPermissionInputs == 3
\* most entries of the "zones" table of a config.json read on its own
MaxZones == 2
\* longest string handed to normalizeKey on its own
MaxKeyLen == 3

----------------------------------------------------------------------------
(* Go strings *)

IsSpace(c) == c \in {" ", "\t"}

RECURSIVE TrimLeft(_)
TrimLeft(s) == IF s # <<>> /\ IsSpace(Head(s)) THEN TrimLeft(Tail(s)) ELSE s

RECURSIVE TrimRight(_)
TrimRight(s) ==
  IF s # <<>> /\ IsSpace(s[Len(s)]) THEN TrimRight(SubSeq(s, 1, Len(s) - 1)) ELSE s

\* strings.TrimSpace
TrimSpace(s) == TrimRight(TrimLeft(s))

RECURSIVE SplitAcc(_, _, _)
SplitAcc(s, sep, cur) ==
  IF s = <<>> THEN <<cur>>
  ELSE IF Head(s) = sep THEN <<cur>> \o SplitAcc(Tail(s), sep, <<>>)
  ELSE SplitAcc(Tail(s), sep, Append(cur, Head(s)))

\* strings.Split(s, sep) for a one-character separator; Split("", ",") is [""]
Split(s, sep) == SplitAcc(s, sep, <<>>)

RECURSIVE Join(_, _)
\* strings.Join(list, sep)
Join(list, sep) ==
  IF list = <<>> THEN <<>>
  ELSE IF Len(list) = 1 THEN list[1]
  ELSE list[1] \o <<sep>> \o Join(Tail(list), sep)

UpperLetters == <<"A","B","C","D","E","F","G","H","I","J","K","L","M",
                  "N","O","P","Q","R","S","T","U","V","W","X","Y","Z">>
LowerLetters == <<"a","b","c","d","e","f","g","h","i","j","k","l","m",
                  "n","o","p","q","r","s","t","u","v","w","x","y","z">>

LowerChar(c) ==
  IF \E i \in 1..26 : UpperLetters[i] = c
  THEN LowerLetters[CHOOSE i \in 1..26 : UpperLetters[i] = c]
  ELSE c

\* strings.ToLower
ToLower(s) == [i \in 1..Len(s) |-> LowerChar(s[i])]

\* strings.EqualFold (ASCII)
EqualFold(a, b) == ToLower(a) = ToLower(b)

RECURSIVE DropChars(_, _)
DropChars(s, cs) ==
  IF s = <<>> THEN <<>>
  ELSE IF Head(s) \in cs THEN DropChars(Tail(s), cs)
  ELSE <<Head(s)>> \o DropChars(Tail(s), cs)

RECURSIVE TrimmedNonEmpty(_)
\* the loop "for each part: if trimmed := TrimSpace(part); trimmed != "" { append }"
TrimmedNonEmpty(list) ==
  IF list = <<>> THEN <<>>
  ELSE LET t == TrimSpace(Head(list))
       IN  (IF t = <<>> THEN <<>> ELSE <<t>>) \o TrimmedNonEmpty(Tail(list))

----------------------------------------------------------------------------
(* String literals of the program and of the explored inputs *)

\* cloudflare.DefaultPermissionKeys = []string{"Zone:Read"}
ZoneReadName == <<"Z","o","n","e",":","R","e","a","d">>
DefaultPermissionKeys == <<ZoneReadName>>

\* the sentinel "0.0.0.0/32" of normalizeCIDRList
SentinelCIDR == <<"0",".","0",".","0",".","0","/","3","2">>

CidrA == <<"1","0",".","0",".","0",".","1","/","3","2">>
CidrB == <<"1","0",".","0",".","0",".","0","/","8">>
CidrBad == <<"1","0",".","0",".","x">>

\* net.ParseCIDR succeeds on exactly these literals of the explored inputs
ParseCIDROk(s) == s \in {CidrA, CidrB, SentinelCIDR}

\* the permission catalog returned by Client.PermissionGroups
Catalog ==
  << [ID |-> <<"p","1">>,
      Name |-> <<"Z","o","n","e"," ","R","e","a","d">>,
      Key |-> <<"z","o","n","e",".","r","e","a","d">>],
     [ID |-> <<"p","2">>,
      Name |-> <<"D","N","S"," ","W","r","i","t","e">>,
      Key |-> <<>>] >>

DnsWriteName == <<"d","n","s","_","w","r","i","t","e">>
UnknownName == <<"n","o","p","e">>

ZoneIdA == <<"z","a">>
ZoneIdB == <<"z","b">>
ZoneIdC == <<"z","c">>
ZoneNameProd == <<"p","r","o","d">>
\* a zone name that is 32 hexadecimal characters
ZoneNameHex == [i \in 1..32 |-> IF i % 2 = 0 THEN "A" ELSE "0"]

PrefixDev == <<"d","e","v">>

----------------------------------------------------------------------------
(* Durations and instants.  An instant is a number of ticks; a duration   *)
(* too.  time.Format("20060102T150405Z") keeps whole seconds only.        *)

TicksPerSecond == 2
Hour == 3600 * TicksPerSecond

\* time.Time.Format("20060102T150405Z"): the instant truncated to its second
FormatStamp(t) == t \div TicksPerSecond

DigitValue(c) ==
  CASE c = "0" -> 0 [] c = "1" -> 1 [] c = "2" -> 2 [] c = "3" -> 3 [] c = "4" -> 4
    [] c = "5" -> 5 [] c = "6" -> 6 [] c = "7" -> 7 [] c = "8" -> 8 [] c = "9" -> 9
    [] OTHER -> -1

RECURSIVE DigitsValue(_, _)
DigitsValue(s, acc) ==
  IF s = <<>> THEN acc ELSE DigitsValue(Tail(s), 10 * acc + DigitValue(Head(s)))

IsDigits(s) == s # <<>> /\ \A i \in 1..Len(s) : DigitValue(s[i]) >= 0

UnitTicks(c) ==
  CASE c = "h" -> Hour [] c = "m" -> 60 * TicksPerSecond [] c = "s" -> TicksPerSecond
    [] OTHER -> 0

\* time.ParseDuration restricted to [-]<digits><h|m|s> and the bare "0"
ParseDuration(s) ==
  LET neg  == s # <<>> /\ Head(s) = "-"
      body == IF neg THEN Tail(s) ELSE s
      num  == IF body = <<>> THEN <<>> ELSE SubSeq(body, 1, Len(body) - 1)
      unit == IF body = <<>> THEN "" ELSE body[Len(body)]
  IN  IF body = <<"0">> THEN [ok |-> TRUE, d |-> 0]
      ELSE IF IsDigits(num) /\ UnitTicks(unit) > 0
           THEN [ok |-> TRUE,
                 d  |-> (IF neg THEN -1 ELSE 1) * DigitsValue(num, 0) * UnitTicks(unit)]
           ELSE [ok |-> FALSE, d |-> 0]

----------------------------------------------------------------------------
(* internal/cloudflare: permission matching *)

\* mutation: surrounding whitespace is not trimmed
normalizeKeyUntrimmed(s) == DropChars(ToLower(s), {" ", "_", "-", ":", "."})

\* normalizeKey: lowercase, trim, then delete space _ - : .
normalizeKey(s) == DropChars(TrimSpace(ToLower(s)), {" ", "_", "-", ":", "."})

\* the switch of matchPermissionGroups for one input and one catalog entry
GroupMatches(in, group) ==
  \/ EqualFold(in, group.ID)
  \/ normalizeKey(group.Name) = normalizeKey(in)
  \/ group.Key # <<>> /\ normalizeKey(group.Key) = normalizeKey(in)

\* index of the first catalog entry the inner loop stops at, 0 when none
FirstMatch(groups, in) ==
  IF \E i \in 1..Len(groups) : GroupMatches(in, groups[i])
  THEN CHOOSE i \in 1..Len(groups) :
         /\ GroupMatches(in, groups[i])
         /\ \A j \in 1..(i - 1) : ~GroupMatches(in, groups[j])
  ELSE 0

\* the two slices matchPermissionGroups returns: ids and catalog entries
MatchResult(entries) ==
  [err |-> "", bad |-> <<>>,
   refs |-> [i \in 1..Len(entries) |-> entries[i].ID], matched |-> entries]

MatchError(e, in) == [err |-> e, bad |-> in, refs |-> <<>>, matched |-> <<>>]

RECURSIVE matchLoopOnce(_, _, _)
\* mutation: an entry that is already matched is not appended again
matchLoopOnce(groups, inputs, acc) ==
  IF inputs = <<>> THEN MatchResult(acc)
  ELSE LET k == FirstMatch(groups, Head(inputs))
       IN  IF k = 0 THEN MatchError("PermissionNotFound", Head(inputs))
           ELSE matchLoopOnce(groups, Tail(inputs),
                              IF \E i \in 1..Len(acc) : acc[i] = groups[k]
                              THEN acc ELSE Append(acc, groups[k]))

RECURSIVE matchLoop(_, _, _)
\* the loop labelled "lookup": acc holds the entries matched so far
matchLoop(groups, inputs, acc) ==
  IF inputs = <<>> THEN MatchResult(acc)
  ELSE LET k == FirstMatch(groups, Head(inputs))
       IN  IF k = 0 THEN MatchError("PermissionNotFound", Head(inputs))
           ELSE matchLoop(groups, Tail(inputs), Append(acc, groups[k]))

\* mutation: an input that matches no entry is skipped
matchPermissionGroupsSkipUnknown(groups, inputs) ==
  IF Len(inputs) = 0 THEN MatchError("NoPermissionsSpecified", <<>>)
  ELSE matchLoop(groups, SelectSeq(inputs, LAMBDA in : FirstMatch(groups, in) # 0), <<>>)

\* matchPermissionGroups: refs are the ids of the matched groups, in input order
matchPermissionGroups(groups, inputs) ==
  IF Len(inputs) = 0 THEN MatchError("NoPermissionsSpecified", <<>>)
  ELSE matchLoop(groups, inputs, <<>>)

----------------------------------------------------------------------------
(* cmd/cftoken: CIDR normalisation *)

RECURSIVE normalizeLoopPartial(_, _)
\* mutation: the entries accepted before a malformed one are returned with the error
normalizeLoopPartial(values, out) ==
  IF values = <<>> THEN [cidrs |-> out, disabled |-> FALSE, err |-> "", bad |-> <<>>]
  ELSE LET cidr == TrimSpace(Head(values))
       IN  IF cidr = <<>> THEN normalizeLoopPartial(Tail(values), out)
           ELSE IF cidr = SentinelCIDR
                THEN [cidrs |-> <<>>, disabled |-> TRUE, err |-> "", bad |-> <<>>]
           ELSE IF ~ParseCIDROk(cidr)
                THEN [cidrs |-> out, disabled |-> FALSE, err |-> "InvalidCIDR", bad |-> cidr]
           ELSE normalizeLoopPartial(Tail(values), Append(out, cidr))

RECURSIVE normalizeLoop(_, _)
normalizeLoop(values, out) ==
  IF values = <<>> THEN [cidrs |-> out, disabled |-> FALSE, err |-> "", bad |-> <<>>]
  ELSE LET cidr == TrimSpace(Head(values))
       IN  IF cidr = <<>> THEN normalizeLoop(Tail(values), out)
           ELSE IF cidr = SentinelCIDR
                THEN [cidrs |-> <<>>, disabled |-> TRUE, err |-> "", bad |-> <<>>]
           ELSE IF ~ParseCIDROk(cidr)
                THEN [cidrs |-> <<>>, disabled |-> FALSE, err |-> "InvalidCIDR", bad |-> cidr]
           ELSE normalizeLoop(Tail(values), Append(out, cidr))

RECURSIVE Deduplicated(_)
Deduplicated(list) ==
  IF list = <<>> THEN <<>>
  ELSE LET rest == Deduplicated(SubSeq(list, 1, Len(list) - 1))
           last == list[Len(list)]
       IN  IF \E i \in 1..Len(rest) : rest[i] = last THEN rest ELSE Append(rest, last)

\* mutation: a CIDR that occurs twice is returned once
normalizeCIDRListDeduplicated(values) ==
  [normalizeLoop(values, <<>>) EXCEPT !.cidrs = Deduplicated(@)]

normalizeCIDRList(values) == normalizeLoop(values, <<>>)

\* the list parseAllowedCIDRs hands to normalizeCIDRList
parseAllowedCIDRsSanitized(input) == TrimmedNonEmpty(Split(input, ","))

parseAllowedCIDRs(input) == normalizeCIDRList(parseAllowedCIDRsSanitized(input))

IsHexChar(c) ==
  c \in {"0","1","2","3","4","5","6","7","8","9",
         "a","b","c","d","e","f","A","B","C","D","E","F"}

looksLikeZoneID(s) == Len(s) = 32 /\ \A i \in 1..Len(s) : IsHexChar(s[i])

----------------------------------------------------------------------------
(* internal/config.  A config file is [state, DefaultPermissions,          *)
(* DefaultAllowedCIDRs, Zones]; state is "missing", "malformed" or "ok";   *)
(* Zones is nil (<<>>) or <<map>>, a map from zone name to an entry        *)
(* [kind, id, rec] with kind "string", "object" (a JSON object that       *)
(* decodes into ZoneConfig), "badobject" (a JSON object whose zone_id is   *)
(* not a string) or "other".                                               *)

\* loadSettings: os.ReadFile then json.Unmarshal
loadSettings(file) ==
  CASE file.state = "missing"   -> [err |-> "NotExist", cfg |-> file]
    [] file.state = "malformed" -> [err |-> "ParseConfig", cfg |-> file]
    [] OTHER                    -> [err |-> "", cfg |-> file]

\* mutation: blank entries are dropped but the others are not trimmed
sanitizeStringListUntrimmed(values) ==
  SelectSeq(values, LAMBDA v : TrimSpace(v) # <<>>)

sanitizeStringList(values) == TrimmedNonEmpty(values)

\* err "NotExist" is the error for which errors.Is(err, fs.ErrNotExist) holds
LoadDefaultPermissions(file) ==
  LET ld == loadSettings(file)
      perms == sanitizeStringList(ld.cfg.DefaultPermissions)
  IN  IF ld.err # "" THEN [err |-> ld.err, list |-> <<>>]
      ELSE IF Len(perms) = 0 THEN [err |-> "NotExist", list |-> <<>>]
      ELSE [err |-> "", list |-> perms]

LoadDefaultAllowedCIDRs(file) ==
  LET ld == loadSettings(file)
      cidrs == sanitizeStringList(ld.cfg.DefaultAllowedCIDRs)
  IN  IF ld.err # "" THEN [err |-> ld.err, list |-> <<>>]
      ELSE IF Len(cidrs) = 0 THEN [err |-> "NotExist", list |-> <<>>]
      ELSE [err |-> "", list |-> cidrs]

\* mutation: inherit_defaults is not consulted
ApplyInheritDefaultsAlways(rec, cfg) ==
  [rec EXCEPT
     !.Permissions =
        IF Len(@) = 0 /\ Len(cfg.DefaultPermissions) > 0
        THEN cfg.DefaultPermissions ELSE @,
     !.AllowedCIDRs =
        IF Len(@) = 0 /\ Len(cfg.DefaultAllowedCIDRs) > 0
        THEN cfg.DefaultAllowedCIDRs ELSE @]

\* the "apply defaults if requested" block of LoadZoneConfig
ApplyInheritDefaults(rec, cfg) ==
  IF rec.InheritDefaults
  THEN [rec EXCEPT
          !.Permissions =
             IF Len(@) = 0 /\ Len(cfg.DefaultPermissions) > 0
             THEN cfg.DefaultPermissions ELSE @,
          !.AllowedCIDRs =
             IF Len(@) = 0 /\ Len(cfg.DefaultAllowedCIDRs) > 0
             THEN cfg.DefaultAllowedCIDRs ELSE @]
  ELSE rec

\* mutation: a bare string entry is returned as a record holding the id
LoadZoneConfigStringAsRecord(file, zoneName) ==
  LET ld == loadSettings(file)
      none == [err |-> "", zoneID |-> <<>>, config |-> <<>>]
  IN  IF ld.err # "" THEN [none EXCEPT !.err = ld.err]
      ELSE IF ld.cfg.Zones = <<>> THEN [none EXCEPT !.err = "NoZonesConfigured"]
      ELSE LET zones == ld.cfg.Zones[1]
           IN  IF zoneName \notin DOMAIN zones
               THEN [none EXCEPT !.err = "ZoneNotFound"]
               ELSE LET zoneValue == zones[zoneName]
                    IN  CASE zoneValue.kind = "string" ->
                               [err |-> "", zoneID |-> zoneValue.id,
                                config |-> <<[zoneValue.rec EXCEPT !.ZoneID = zoneValue.id]>>]
                          [] zoneValue.kind = "object" ->
                               LET zc == ApplyInheritDefaults(zoneValue.rec, ld.cfg)
                               IN  [err |-> "", zoneID |-> zc.ZoneID, config |-> <<zc>>]
                          [] zoneValue.kind = "badobject" ->
                               [none EXCEPT !.err = "ParseZoneConfig"]
                          [] OTHER ->
                               [none EXCEPT !.err = "InvalidZoneFormat"]

\* LoadZoneConfig: exact-key lookup in cfg.Zones
LoadZoneConfig(file, zoneName) ==
  LET ld == loadSettings(file)
      none == [err |-> "", zoneID |-> <<>>, config |-> <<>>]
  IN  IF ld.err # "" THEN [none EXCEPT !.err = ld.err]
      ELSE IF ld.cfg.Zones = <<>> THEN [none EXCEPT !.err = "NoZonesConfigured"]
      ELSE LET zones == ld.cfg.Zones[1]
           IN  IF zoneName \notin DOMAIN zones
               THEN [none EXCEPT !.err = "ZoneNotFound"]
               ELSE LET zoneValue == zones[zoneName]
                    IN  CASE zoneValue.kind = "string" ->
                               [none EXCEPT !.zoneID = zoneValue.id]
                          [] zoneValue.kind = "object" ->
                               LET zc == ApplyInheritDefaults(zoneValue.rec, ld.cfg)
                               IN  [err |-> "", zoneID |-> zc.ZoneID, config |-> <<zc>>]
                          [] zoneValue.kind = "badobject" ->
                               [none EXCEPT !.err = "ParseZoneConfig"]
                          [] OTHER ->
                               [none EXCEPT !.err = "InvalidZoneFormat"]

\* strings.TrimSuffix(s, ".")
TrimSuffixDot(s) ==
  IF s # <<>> /\ s[Len(s)] = "." THEN SubSeq(s, 1, Len(s) - 1) ELSE s

normalizeZoneName(s) == TrimSuffixDot(TrimSpace(ToLower(s)))

\* the id sanitizeZones takes from one entry of cfg.Zones, <<>> when it takes none
ZoneEntryID(value) ==
  CASE value.kind = "string" -> TrimSpace(value.id)
    [] value.kind = "object" -> TrimSpace(value.rec.ZoneID)
    [] OTHER -> <<>>

\* sanitizeZones ranges over a Go map, whose iteration order is not fixed: when
\* several keys normalise to one name the entry written last stays.  The value
\* is the set of maps the call can return; the empty map stands for nil.
sanitizeZones(values) ==
  LET zones == IF values = <<>> THEN <<>> ELSE values[1]
      usable == {k \in DOMAIN zones :
                   normalizeZoneName(k) # <<>> /\ ZoneEntryID(zones[k]) # <<>>}
      names == {normalizeZoneName(k) : k \in usable}
      ids(n) == {ZoneEntryID(zones[k]) : k \in {u \in usable : normalizeZoneName(u) = n}}
  IN  {out \in [names -> {ZoneEntryID(zones[k]) : k \in usable}] :
         \A n \in names : out[n] \in ids(n)}

\* LoadZoneOverrides and ZoneMap: the maps either call can return
ZoneMap(file) ==
  LET ld == loadSettings(file)
  IN  IF ld.err # "" THEN {[err |-> ld.err, zones |-> <<>>]}
      ELSE {[err |-> IF DOMAIN out = {} THEN "NoValidZones" ELSE "", zones |-> out] :
              out \in sanitizeZones(ld.cfg.Zones)}

\* the byte order of the characters that occur in zone names
ByteOrder ==
  <<"\t", " ", "-", ".", "0", "1", "2", "3", "4", "5", "6", "7", "8", "9", ":",
    "A", "B", "C", "D", "E", "F", "G", "H", "I", "J", "K", "L", "M", "N", "O",
    "P", "Q", "R", "S", "T", "U", "V", "W", "X", "Y", "Z", "_",
    "a", "b", "c", "d", "e", "f", "g", "h", "i", "j", "k", "l", "m", "n", "o",
    "p", "q", "r", "s", "t", "u", "v", "w", "x", "y", "z">>

CharRank(c) == CHOOSE i \in 1..Len(ByteOrder) : ByteOrder[i] = c

\* Go's a < b on strings
RECURSIVE StringLess(_, _)
StringLess(a, b) ==
  IF b = <<>> THEN FALSE
  ELSE IF a = <<>> THEN TRUE
  ELSE IF Head(a) = Head(b) THEN StringLess(Tail(a), Tail(b))
  ELSE CharRank(Head(a)) < CharRank(Head(b))

\* sort.Slice by Name, over entries whose names are distinct
RECURSIVE SortByName(_)
SortByName(entries) ==
  IF entries = {} THEN <<>>
  ELSE LET first == CHOOSE e \in entries :
                      \A o \in entries \ {e} : StringLess(e.Name, o.Name)
       IN  <<first>> \o SortByName(entries \ {first})

\* the entries map of ListConfiguredZones after the loop over overrides, which
\* normalises each name once more: the set of maps the loop can leave, as sets
\* of ZoneEntry
ListedEntries(overrides) ==
  LET usable == {k \in DOMAIN overrides :
                   normalizeZoneName(k) # <<>> /\ TrimSpace(overrides[k]) # <<>>}
      names == {normalizeZoneName(k) : k \in usable}
      keys(n) == {k \in usable : normalizeZoneName(k) = n}
  IN  {{[Name |-> n, ID |-> TrimSpace(overrides[pick[n]])] : n \in names} :
         pick \in {p \in [names -> usable] : \A n \in names : p[n] \in keys(n)}}

\* ListConfiguredZones: the results the call can return
ListConfiguredZones(file) ==
  UNION {IF zm.err # "" THEN {[err |-> zm.err, entries |-> <<>>]}
         ELSE {[err |-> "", entries |-> SortByName(es)] :
                 es \in ListedEntries(zm.zones)} :
           zm \in ZoneMap(file)}

\* ResolveZoneID once ZoneMap has returned zm
ResolveZoneID(zm, zoneName) ==
  LET name == normalizeZoneName(zoneName)
  IN  IF zm.err # "" THEN [err |-> zm.err, id |-> <<>>]
      ELSE IF name = <<>> THEN [err |-> "ZoneNameEmpty", id |-> <<>>]
      ELSE IF name \in DOMAIN zm.zones /\ zm.zones[name] # <<>>
           THEN [err |-> "", id |-> zm.zones[name]]
      ELSE [err |-> "ZoneNotFound", id |-> <<>>]

----------------------------------------------------------------------------
(* text/template and encoding/json, as far as RenderPolicies uses them.   *)
(* A rendered document is [json, items]: json is "invalid" (not JSON),     *)
(* "strings" (a JSON array of strings), "null" or "array" (a JSON array   *)
(* of objects), items the decoded policies.  A policy is [ID, Effect,         *)
(* Resources, PermissionGroups]; Resources is a set of [key, value,       *)
(* isString] and a zone resource key is <<prefix, zone id>>.              *)

ZoneResourcePrefix == "com.cloudflare.api.account.zone"
AccountResourcePrefix == "com.cloudflare.api.account"

\* what {{ .Key }} prints: the value, or "<no value>" for a missing map key
NoValue == <<"<","n","o"," ","v","a","l","u","e",">">>
VarValue(vars, k) == IF k \in DOMAIN vars THEN vars[k] ELSE NoValue

Group(id, name) == [ID |-> id, Name |-> name]
Res(key, value, isString) == [key |-> key, value |-> value, isString |-> isString]

ZonePolicy(effect, zone, groups) ==
  [ID |-> <<>>, Effect |-> effect,
   Resources |-> {Res(<<ZoneResourcePrefix, zone>>, "*", TRUE)},
   PermissionGroups |-> groups]

\* the template files and inline templates of the explored configurations
TemplateTexts ==
  {"tpl-syntax", "tpl-exec", "tpl-text", "tpl-strings", "tpl-null", "tpl-empty",
   "tpl-zone", "tpl-two", "tpl-noeffect", "tpl-badeffect", "tpl-account"}

\* template.New(name).Parse(text)
TemplateParseOk(text) == text # "tpl-syntax"

\* tmpl.Execute(&buf, vars) followed by json.Unmarshal into []Policy
TemplateExecute(text, vars) ==
  LET zone == VarValue(vars, "ZoneID")
      other == VarValue(vars, "Other")
      doc(items) == [ok |-> TRUE, json |-> "array", items |-> items]
  IN  CASE text = "tpl-exec"  -> [ok |-> FALSE, json |-> "invalid", items |-> <<>>]
        [] text = "tpl-text"  -> [ok |-> TRUE, json |-> "invalid", items |-> <<>>]
        [] text = "tpl-strings" -> [ok |-> TRUE, json |-> "strings", items |-> <<>>]
        [] text = "tpl-null"  -> [ok |-> TRUE, json |-> "null", items |-> <<>>]
        [] text = "tpl-empty" -> doc(<<>>)
        [] text = "tpl-zone"  ->
             doc(<<ZonePolicy("allow", zone, <<Group(<<"p","2">>, <<>>)>>)>>)
        [] text = "tpl-two"   ->
             doc(<<ZonePolicy("allow", zone, <<Group(<<"p","1">>, ZoneReadName)>>),
                   ZonePolicy("deny", other, <<Group(<<"p","2">>, <<>>)>>)>>)
        [] text = "tpl-noeffect"  ->
             doc(<<ZonePolicy("", zone, <<Group(<<"p","1">>, <<>>)>>)>>)
        [] text = "tpl-badeffect" ->
             doc(<<ZonePolicy("audit", zone, <<Group(<<"p","1">>, <<>>)>>)>>)
        [] OTHER ->
             doc(<<[ID |-> <<"a","c">>, Effect |-> "allow",
                    Resources |-> {Res(<<AccountResourcePrefix, other>>, "true", FALSE)},
                    PermissionGroups |-> <<Group(<<"p","1">>, <<>>)>>]>>)

\* os.ReadFile of the expanded template path
TemplateFiles == {"policy.tmpl"}
ReadFile(path) ==
  IF path \in TemplateFiles THEN [ok |-> TRUE, text |-> "tpl-zone"]
  ELSE [ok |-> FALSE, text |-> ""]

----------------------------------------------------------------------------
(* internal/template *)

\* strings.TrimSpace(buf.String()): the text the template renders with vars
RenderedText(text, vars) == [template |-> text, vars |-> vars]

\* json.Unmarshal into []Policy accepts a JSON array of objects and null
UnmarshalOk(json) == json \in {"array", "null"}

RenderPolicies(templatePath, inlineTemplate, vars) ==
  LET fail(e) == [err |-> e, policies |-> <<>>, rendered |-> <<>>]
      file == ReadFile(templatePath)
      text == IF inlineTemplate # "" THEN inlineTemplate ELSE file.text
      run  == TemplateExecute(text, vars)
  IN  IF templatePath = "" /\ inlineTemplate = "" THEN fail("NoTemplateSource")
      ELSE IF inlineTemplate = "" /\ ~file.ok THEN fail("TemplateReadError")
      ELSE IF ~TemplateParseOk(text) THEN fail("TemplateParseError")
      ELSE IF ~run.ok THEN fail("TemplateExecuteError")
      ELSE IF ~UnmarshalOk(run.json)
           THEN [err |-> "TemplateOutputInvalid", policies |-> <<>>,
                 rendered |-> <<RenderedText(text, vars)>>]
      ELSE [err |-> "", policies |-> run.items, rendered |-> <<>>]

----------------------------------------------------------------------------
(* internal/cloudflare: request construction.  A request is [Name,        *)
(* Policies, ExpiresOn, Condition]; a request policy is [Effect,          *)
(* PermissionGroups (ids), Resources (set of [key, value])].              *)

NoParams == [Name |-> <<>>, Policies |-> <<>>, ExpiresOn |-> <<>>, Condition |-> <<>>]

\* params.Condition is set only for a non-empty allow-list
ConditionOf(allowedCIDRs) == IF Len(allowedCIDRs) > 0 THEN <<allowedCIDRs>> ELSE <<>>

buildTokenParams(perms, tokenName, zoneID, permissionInputs, expiresOn, allowedCIDRs) ==
  LET m == matchPermissionGroups(perms, permissionInputs)
      policy == [Effect |-> "allow",
                 PermissionGroups |-> m.refs,
                 Resources |-> {[key |-> <<ZoneResourcePrefix, zoneID>>, value |-> "*"]}]
  IN  IF m.err # "" THEN [err |-> m.err, params |-> NoParams]
      ELSE [err |-> "",
            params |-> [Name |-> tokenName, Policies |-> <<policy>>,
                        ExpiresOn |-> expiresOn,
                        Condition |-> ConditionOf(allowedCIDRs)]]

\* "default to allow if not specified"
EffectOf(policy) == IF policy.Effect = "" THEN "allow" ELSE policy.Effect

PolicyParamOf(policy) ==
  [Effect |-> EffectOf(policy),
   PermissionGroups |-> [j \in 1..Len(policy.PermissionGroups) |->
                           policy.PermissionGroups[j].ID],
   Resources |-> {[key |-> r.key, value |-> r.value] : r \in policy.Resources}]

\* mutation: the effect of a policy is not validated
buildTokenParamsFromPoliciesUnchecked(tokenName, policies, expiresOn, allowedCIDRs) ==
  IF Len(policies) = 0 THEN [err |-> "NoPolicies", params |-> NoParams]
  ELSE [err |-> "",
        params |-> [Name |-> tokenName,
                    Policies |-> [i \in 1..Len(policies) |-> PolicyParamOf(policies[i])],
                    ExpiresOn |-> expiresOn,
                    Condition |-> ConditionOf(allowedCIDRs)]]

buildTokenParamsFromPolicies(tokenName, policies, expiresOn, allowedCIDRs) ==
  IF Len(policies) = 0 THEN [err |-> "NoPolicies", params |-> NoParams]
  ELSE IF \E i \in 1..Len(policies) : EffectOf(policies[i]) \notin {"allow", "deny"}
  THEN [err |-> "InvalidPolicyEffect", params |-> NoParams]
  ELSE [err |-> "",
        params |-> [Name |-> tokenName,
                    Policies |-> [i \in 1..Len(policies) |-> PolicyParamOf(policies[i])],
                    ExpiresOn |-> expiresOn,
                    Condition |-> ConditionOf(allowedCIDRs)]]

\* run(), lines 329-343: template.Policy to cloudflare.Policy
ConvertPolicies(rendered) ==
  [i \in 1..Len(rendered) |->
     [ID |-> rendered[i].ID, Effect |-> rendered[i].Effect,
      Resources |-> rendered[i].Resources,
      PermissionGroups |-> [j \in 1..Len(rendered[i].PermissionGroups) |->
                              Group(rendered[i].PermissionGroups[j].ID,
                                    rendered[i].PermissionGroups[j].Name)]]]

----------------------------------------------------------------------------
(* The explored command lines and configuration files *)

NoVars == [k \in {} |-> <<>>]

Argv(prefix, zid, zname, perms, ttl, cidrs, dry, cliVars) ==
  [tokenPrefix |-> prefix, zoneID |-> zid, zoneName |-> zname,
   permissions |-> perms, ttl |-> ttl, allowCIDRs |-> cidrs,
   dryRun |-> dry, templateVars |-> cliVars]

ZoneRec(zid, perms, cidrs, ttl, tfile, tinline, zvars, inherit) ==
  [ZoneID |-> zid, Permissions |-> perms, AllowedCIDRs |-> cidrs, TTL |-> ttl,
   TemplateFile |-> tfile, TemplateInline |-> tinline, Variables |-> zvars,
   InheritDefaults |-> inherit]

EmptyRec == ZoneRec(<<>>, <<>>, <<>>, <<>>, "", "", NoVars, FALSE)

StringEntry(id) == [kind |-> "string", id |-> id, rec |-> EmptyRec]
ObjectEntry(rec) == [kind |-> "object", id |-> <<>>, rec |-> rec]
OtherEntry == [kind |-> "other", id |-> <<>>, rec |-> EmptyRec]
BadObjectEntry == [kind |-> "badobject", id |-> <<>>, rec |-> EmptyRec]

ConfigFile(state, perms, cidrs, zones) ==
  [state |-> state, DefaultPermissions |-> perms,
   DefaultAllowedCIDRs |-> cidrs, Zones |-> zones]

\* a config.json whose only zone is "prod"
ProdFile(perms, cidrs, entry) ==
  ConfigFile("ok", perms, cidrs, <<(ZoneNameProd :> entry)>>)

Input(argv, file) == [argv |-> argv, file |-> file]

PermissionArgs ==
  {<<>>, <<<<>>>>, <<Join(<<DnsWriteName, <<" ">> \o ZoneReadName>>, ",")>>,
   <<UnknownName>>}
CidrArgs ==
  {<<>>, <<<<>>>>, <<Join(<<CidrA, <<" ">> \o CidrB>>, ",")>>,
   <<Join(<<CidrA, SentinelCIDR>>, ",")>>, <<CidrBad>>}

\* permissions and allow-lists from the flags, the zone record and the defaults
PolicyInputs ==
  { Input(Argv(PrefixDev, <<>>, ZoneNameProd, pa, <<>>, ca, dry, NoVars),
          ProdFile(dp, dc,
                   ObjectEntry(ZoneRec(ZoneIdA, zp, zc, <<>>, "", tpl, NoVars, FALSE)))) :
      pa \in PermissionArgs,
      ca \in CidrArgs,
      dry \in BOOLEAN,
      dp \in {<<>>, <<ZoneReadName>>, <<UnknownName>>},
      dc \in {<<>>, <<CidrB>>, <<SentinelCIDR>>},
      zp \in {<<>>, <<DnsWriteName>>},
      zc \in {<<>>, <<CidrA, <<" ">> \o CidrB>>, <<CidrBad>>},
      tpl \in {"", "tpl-zone", "tpl-empty", "tpl-badeffect", "tpl-text"} }

TemplateSources ==
  {<<"", t>> : t \in TemplateTexts} \cup
  {<<"policy.tmpl", "">>, <<"absent.tmpl", "">>, <<"policy.tmpl", "tpl-two">>}

VarMaps == {NoVars, ("ZoneID" :> ZoneIdB), ("Other" :> ZoneIdB)}

\* template sources and the three layers of template variables
TemplateInputs ==
  { Input(Argv(PrefixDev, <<>>, ZoneNameProd, pa, <<>>, <<>>, dry, cv),
          ProdFile(<<>>, <<CidrB>>,
                   ObjectEntry(ZoneRec(zid, <<DnsWriteName>>, <<>>, <<>>,
                                       src[1], src[2], zv, FALSE)))) :
      pa \in {<<>>, <<ZoneReadName>>},
      dry \in BOOLEAN,
      cv \in VarMaps,
      zv \in {NoVars, ("ZoneID" :> ZoneIdC), ("Other" :> ZoneIdC)},
      zid \in {ZoneIdA},
      src \in TemplateSources }

TTLStrings ==
  {<<>>, <<"2","h">>, <<"0">>, <<"1","d">>, <<"-","1","h">>, <<"9","0","m">>}

\* the -ttl flag against the zone record's ttl
TTLInputs ==
  { Input(Argv(PrefixDev, <<>>, ZoneNameProd, <<>>, ta, <<>>, dry, NoVars),
          ProdFile(<<>>, <<CidrB>>, entry)) :
      ta \in {<<>>} \cup {<<h>> : h \in 0..MaxTTLFlag},
      dry \in BOOLEAN,
      entry \in {StringEntry(ZoneIdA)} \cup
                {ObjectEntry(ZoneRec(ZoneIdA, <<>>, <<>>, ts, "", "", NoVars, FALSE)) :
                   ts \in TTLStrings} }

ZoneFiles ==
  {ConfigFile("missing", <<>>, <<>>, <<>>),
   ConfigFile("malformed", <<>>, <<>>, <<>>),
   ConfigFile("ok", <<>>, <<CidrB>>, <<>>),
   ProdFile(<<>>, <<CidrB>>, StringEntry(ZoneIdA)),
   ProdFile(<<>>, <<CidrB>>, OtherEntry),
   ProdFile(<<>>, <<CidrB>>, BadObjectEntry),
   ProdFile(<<>>, <<CidrB>>, ObjectEntry(EmptyRec)),
   ProdFile(<<>>, <<CidrB>>,
            ObjectEntry(ZoneRec(ZoneIdA, <<>>, <<>>, <<>>, "", "", NoVars, FALSE)))}

\* zone resolution and the token prefix
ZoneInputs ==
  { Input(Argv(prefix, zid, zname, pa, <<>>, ca, dry, NoVars), file) :
      prefix \in {<<>>, <<" ">> \o PrefixDev},
      zid \in {<<>>, ZoneIdB},
      zname \in {<<>>, ZoneNameProd, ZoneNameHex, UnknownName},
      pa \in {<<>>, <<ZoneReadName>>},
      ca \in {<<>>, <<CidrA>>},
      dry \in BOOLEAN,
      file \in ZoneFiles }

\* inherit_defaults
InheritInputs ==
  { Input(Argv(PrefixDev, <<>>, ZoneNameProd, <<>>, <<>>, <<>>, dry, NoVars),
          ProdFile(dp, dc,
                   ObjectEntry(ZoneRec(ZoneIdA, zp, zc, <<>>, "", "", NoVars, inh)))) :
      dry \in BOOLEAN,
      inh \in BOOLEAN,
      dp \in {<<>>, <<ZoneReadName>>, <<<<" ">>>>},
      dc \in {<<>>, <<CidrB>>, <<<<" ">>>>},
      zp \in {<<>>, <<DnsWriteName>>, <<<<" ">>>>},
      zc \in {<<>>, <<CidrA>>, <<<<" ">>>>} }

\* default_permissions and default_allowed_cidrs with padded and blank entries
PaddedPermissions == <<<<" ">> \o DnsWriteName \o <<" ">>, <<" ">>, ZoneReadName>>
PaddedCIDRs == <<<<>>, <<"\t">> \o CidrB, CidrA \o <<" ">>>>

DefaultsInputs ==
  { Input(Argv(PrefixDev, ZoneIdA, <<>>, <<>>, <<>>, <<>>, dry, NoVars),
          ConfigFile("ok", dp, dc, <<>>)) :
      dry \in BOOLEAN,
      dp \in {<<>>, <<<<" ">>, <<>>>>, <<ZoneReadName>>, PaddedPermissions},
      dc \in {<<>>, <<<<" ">>, <<>>>>, <<CidrB>>, PaddedCIDRs} }

Inputs ==
  PolicyInputs \cup TemplateInputs \cup TTLInputs \cup ZoneInputs \cup InheritInputs
    \cup DefaultsInputs

----------------------------------------------------------------------------
(* run(): state *)

VARIABLES
  argv,                  \* the command line as given (never written)
  file,                  \* config.json (never written)
  pc,                    \* position in run()
  flags,                 \* the flags struct: tokenPrefix, permissions, allowCIDRs, ttl
  permissionsProvided,   \* flag.Visit saw -permissions
  allowCIDRsProvided,    \* flag.Visit saw -allow-cidrs, or the zone supplied CIDRs
  zoneID,
  resolvedZoneName,
  zoneConfig,            \* nil or <<record>>
  renderedPolicies,
  permissionInputs,
  creationTime,
  tokenName,             \* <<>> or <<[prefix, stamp]>>
  allowedCIDRs,
  ipRestrictionDisabled,
  expiresOn,             \* nil or <<instant>>
  err,                   \* "" while run has not failed
  fetches,               \* calls of Client.PermissionGroups
  renders,               \* calls of template.RenderPolicies
  requests,              \* requests passed to api.User.Tokens.New, in order
  cidrHanded,            \* lists passed to normalizeCIDRList, in order
  matchHanded,           \* input lists passed to matchPermissionGroups, in order
  varsHanded,            \* variable maps passed to RenderPolicies, in order
  previewed,             \* requests PreviewToken returned to printDryRun, in order
  call,                  \* a package function called on its own: [fn, args]
  result                 \* <<>> until that call has returned, then <<value>>

vars == <<argv, file, pc, flags, permissionsProvided, allowCIDRsProvided, zoneID,
          resolvedZoneName, zoneConfig, renderedPolicies, permissionInputs,
          creationTime, tokenName, allowedCIDRs, ipRestrictionDisabled, expiresOn,
          err, fetches, renders, requests, cidrHanded, matchHanded, varsHanded,
          previewed, call, result>>

inputVars == <<argv, file>>
zoneVars == <<zoneID, resolvedZoneName, zoneConfig>>
permVars == <<renderedPolicies, permissionInputs>>
nameVars == <<creationTime, tokenName>>
cidrVars == <<allowedCIDRs, ipRestrictionDisabled, expiresOn>>
callVars == <<fetches, renders, requests, cidrHanded, matchHanded, varsHanded,
              previewed>>
unitVars == <<call, result>>

\* run() is the function under examination: no package function is called alone
NoCall == [fn |-> "run", args |-> <<>>]

\* flags.ttl defaults to 8 * time.Hour
DefaultTTL == 8 * Hour

\* the flags struct after flag.Parse and the TrimSpace calls of lines 139-142
ParsedFlags(a) ==
  [tokenPrefix |-> TrimSpace(a.tokenPrefix),
   zoneID      |-> TrimSpace(a.zoneID),
   zoneName    |-> TrimSpace(a.zoneName),
   permissions |-> IF a.permissions = <<>> THEN <<>> ELSE a.permissions[1],
   allowCIDRs  |-> IF a.allowCIDRs = <<>> THEN <<>> ELSE TrimSpace(a.allowCIDRs[1]),
   ttl         |-> IF a.ttl = <<>> THEN DefaultTTL ELSE a.ttl[1] * Hour,
   dryRun      |-> a.dryRun,
   templateVars |-> a.templateVars]

Init ==
  /\ \E in \in Inputs : argv = in.argv /\ file = in.file
  /\ pc = "resolveZone"
  /\ flags = ParsedFlags(argv)
  /\ permissionsProvided = (argv.permissions # <<>>)
  /\ allowCIDRsProvided = (argv.allowCIDRs # <<>>)
  /\ zoneID = <<>>
  /\ resolvedZoneName = <<>>
  /\ zoneConfig = <<>>
  /\ renderedPolicies = <<>>
  /\ permissionInputs = <<>>
  /\ creationTime = 0
  /\ tokenName = <<>>
  /\ allowedCIDRs = <<>>
  /\ ipRestrictionDisabled = FALSE
  /\ expiresOn = <<>>
  /\ err = ""
  /\ fetches = 0
  /\ renders = 0
  /\ requests = <<>>
  /\ cidrHanded = <<>>
  /\ matchHanded = <<>>
  /\ varsHanded = <<>>
  /\ previewed = <<>>
  /\ call = NoCall
  /\ result = <<>>

\* mutation: a failed creation call sends run() back to the creation block
FailRetry(e) ==
  IF e = "CreateToken" THEN pc' = "create" /\ err' = err
  ELSE pc' = "done" /\ err' = e

\* "return fmt.Errorf(...)"
Fail(e) == pc' = "done" /\ err' = e

\* fall through to the next block of run()
Goto(l) == pc' = l /\ err' = err

----------------------------------------------------------------------------
(* run(): the decisions it takes, as functions of what it has read *)

\* mutation: the record's variables are written last
MergeVariablesZoneLast(zc, cliVars) ==
  LET auto == IF zc.ZoneID # <<>> THEN ("ZoneID" :> zc.ZoneID) ELSE NoVars
  IN  zc.Variables @@ (cliVars @@ auto)

\* lines 196-213: ZoneID from the record, then the record's variables, then -var
MergeVariables(zc, cliVars) ==
  LET auto == IF zc.ZoneID # <<>> THEN ("ZoneID" :> zc.ZoneID) ELSE NoVars
  IN  cliVars @@ (zc.Variables @@ auto)

\* line 196: the record has a template and -permissions was not given
UsesTemplate(provided, zc) ==
  ~provided /\ (zc.TemplateFile # "" \/ zc.TemplateInline # "")

\* lines 220-223: the record's static permissions seed flags.permissions
ZonePermissionsApply(provided, zc) ==
  ~provided /\ ~UsesTemplate(provided, zc) /\ Len(zc.Permissions) > 0

\* mutation: the record's CIDRs replace an explicit -allow-cidrs
ZoneCIDRsApplyAlways(provided, zc) == Len(zc.AllowedCIDRs) > 0

\* line 227: the record's CIDRs are used when -allow-cidrs was not given
ZoneCIDRsApply(provided, zc) == ~provided /\ Len(zc.AllowedCIDRs) > 0

\* lines 233-237: flags.ttl after the record's ttl has been looked at
ZoneTTL(ttl, zc) ==
  LET pd == ParseDuration(zc.TTL)
  IN  IF zc.TTL # <<>> /\ pd.ok THEN pd.d ELSE ttl

\* lines 249-272: the switch that fills permissionInputs
SelectPermissionInputs(provided, flagPermissions, configured) ==
  LET parts == TrimmedNonEmpty(Split(flagPermissions, ","))
  IN  CASE provided ->
             IF TrimSpace(flagPermissions) = <<>> THEN DefaultPermissionKeys ELSE parts
        [] ~provided /\ Len(configured) > 0 -> configured
        [] OTHER -> IF Len(parts) = 0 THEN DefaultPermissionKeys ELSE parts

\* mutation: an empty allow-list is accepted
CIDRsUsableAlways(disabled, cidrs) == disabled \/ Len(cidrs) >= 0

\* lines 301-309: the switch that accepts the normalised allow-list
CIDRsUsable(disabled, cidrs) == disabled \/ Len(cidrs) > 0

\* mutation: a zero ttl still produces an expiry
ExpiryOfNonNegative(created, ttl) == IF ttl >= 0 THEN <<created + ttl>> ELSE <<>>

\* lines 311-315
ExpiryOf(created, ttl) == IF ttl > 0 THEN <<created + ttl>> ELSE <<>>

\* mutation: the resolved zone name replaces a given -token-prefix
TokenPrefixOfZoneFirst(tokenPrefix, zoneName) ==
  IF zoneName # <<>> THEN zoneName ELSE tokenPrefix

\* lines 183-185: flags.tokenPrefix defaults to the resolved zone name
TokenPrefixOf(tokenPrefix, zoneName) ==
  IF tokenPrefix = <<>> /\ zoneName # <<>> THEN zoneName ELSE tokenPrefix

\* line 275
TokenNameOf(prefix, created) == <<[prefix |-> prefix, stamp |-> FormatStamp(created)]>>

\* mutation: -dry-run is parsed but never consulted
IsDryRunIgnored(f) == FALSE

\* line 317
IsDryRun(f) == f.dryRun

\* line 327
UsePolicies(rendered) == Len(rendered) > 0

----------------------------------------------------------------------------
(* run(): steps *)

\* lines 158-189: zone lookup, zone-id fallback, token prefix
ResolveZone ==
  /\ pc = "resolveZone"
  /\ LET lookup   == flags.zoneID = <<>> /\ flags.zoneName # <<>>
         r        == LoadZoneConfig(file, flags.zoneName)
         found    == lookup /\ r.err = ""
         fallback == lookup /\ r.err # "" /\ looksLikeZoneID(flags.zoneName)
         zid      == IF found THEN r.zoneID
                     ELSE IF fallback THEN flags.zoneName ELSE flags.zoneID
         rzn      == IF found THEN flags.zoneName ELSE <<>>
         prefix   == TokenPrefixOf(flags.tokenPrefix, rzn)
     IN  IF lookup /\ ~found /\ ~fallback
         THEN Fail("ResolveZone") /\ UNCHANGED <<zoneVars, flags>>
         ELSE /\ zoneID' = zid
              /\ resolvedZoneName' = rzn
              /\ zoneConfig' = IF found THEN r.config ELSE <<>>
              /\ IF zid = <<>> THEN Fail("MissingZoneID") /\ flags' = flags
                 ELSE /\ flags' = [flags EXCEPT !.tokenPrefix = prefix]
                      /\ IF prefix = <<>> THEN Fail("MissingTokenPrefix")
                         ELSE Goto("applyZone")
  /\ UNCHANGED <<unitVars, inputVars, permissionsProvided, allowCIDRsProvided, permVars,
                 nameVars, cidrVars, callVars>>

\* lines 191-238: template, static permissions, CIDRs and ttl of the zone record
ApplyZoneConfig ==
  /\ pc = "applyZone"
  /\ IF zoneConfig = <<>>
     THEN /\ Goto("permissions")
          /\ UNCHANGED <<flags, allowCIDRsProvided, renderedPolicies, renders,
                         varsHanded>>
     ELSE LET zc     == zoneConfig[1]
              useTpl == UsesTemplate(permissionsProvided, zc)
              tvars  == MergeVariables(zc, flags.templateVars)
              rp     == RenderPolicies(zc.TemplateFile, zc.TemplateInline, tvars)
              zoneCIDRs == ZoneCIDRsApply(allowCIDRsProvided, zc)
          IN  /\ renders' = IF useTpl THEN renders + 1 ELSE renders
              /\ varsHanded' = IF useTpl THEN Append(varsHanded, tvars) ELSE varsHanded
              /\ IF useTpl /\ rp.err # ""
                 THEN /\ Fail("RenderTemplate")
                      /\ UNCHANGED <<flags, allowCIDRsProvided, renderedPolicies>>
                 ELSE /\ renderedPolicies' = IF useTpl THEN rp.policies ELSE <<>>
                      /\ flags' = [flags EXCEPT
                           !.permissions =
                              IF ZonePermissionsApply(permissionsProvided, zc)
                              THEN Join(zc.Permissions, ",") ELSE @,
                           !.allowCIDRs =
                              IF zoneCIDRs THEN Join(zc.AllowedCIDRs, ",") ELSE @,
                           !.ttl = ZoneTTL(@, zc)]
                      /\ allowCIDRsProvided' = (allowCIDRsProvided \/ zoneCIDRs)
                      /\ Goto("permissions")
  /\ UNCHANGED <<unitVars, inputVars, permissionsProvided, zoneVars, permissionInputs,
                 nameVars, cidrVars, fetches, requests, cidrHanded, matchHanded,
                 previewed>>

\* lines 240-275: default permissions, permissionInputs, creation time, name
GatherPermissions ==
  /\ pc = "permissions"
  /\ LET ld == LoadDefaultPermissions(file)
         configured == IF ~permissionsProvided /\ ld.err = "" THEN ld.list ELSE <<>>
     IN  IF ~permissionsProvided /\ ld.err \notin {"", "NotExist"}
         THEN Fail("LoadDefaultPermissions") /\ UNCHANGED <<permissionInputs, nameVars>>
         ELSE /\ permissionInputs' =
                   SelectPermissionInputs(permissionsProvided, flags.permissions,
                                          configured)
              /\ \E now \in 0..MaxClock :
                   /\ creationTime' = now
                   /\ tokenName' = TokenNameOf(flags.tokenPrefix, now)
              /\ Goto("cidrs")
  /\ UNCHANGED <<unitVars, inputVars, flags, permissionsProvided, allowCIDRsProvided, zoneVars,
                 renderedPolicies, cidrVars, callVars>>

\* lines 277-315: the allow-list and the expiry
ResolveCIDRs ==
  /\ pc = "cidrs"
  /\ LET ld     == LoadDefaultAllowedCIDRs(file)
         handed == IF allowCIDRsProvided
                   THEN parseAllowedCIDRsSanitized(flags.allowCIDRs) ELSE ld.list
         n      == normalizeCIDRList(handed)
     IN  IF ~allowCIDRsProvided /\ ld.err # ""
         THEN /\ Fail(IF ld.err = "NotExist" THEN "NoCIDRsConfigured"
                      ELSE "LoadDefaultCIDRs")
              /\ UNCHANGED <<cidrVars, cidrHanded>>
         ELSE /\ cidrHanded' = Append(cidrHanded, handed)
              /\ allowedCIDRs' = n.cidrs
              /\ ipRestrictionDisabled' = n.disabled
              /\ IF n.err # ""
                 THEN /\ Fail(IF allowCIDRsProvided THEN "ParseCIDRs"
                              ELSE "DefaultCIDRsInvalid")
                      /\ expiresOn' = expiresOn
                 ELSE IF ~CIDRsUsable(n.disabled, n.cidrs)
                 THEN /\ Fail(IF allowCIDRsProvided THEN "NoCIDRsProvided"
                              ELSE "NoCIDRsConfigured")
                      /\ expiresOn' = expiresOn
                 ELSE /\ expiresOn' = ExpiryOf(creationTime, flags.ttl)
                      /\ Goto("create")
  /\ UNCHANGED <<unitVars, inputVars, flags, permissionsProvided, allowCIDRsProvided, zoneVars,
                 permVars, nameVars, fetches, renders, requests, matchHanded,
                 varsHanded, previewed>>

\* lines 317-322 with printDryRun and Client.PreviewToken
DryRun ==
  /\ pc = "create"
  /\ IsDryRun(flags)
  /\ fetches' = fetches + 1
  /\ \E fetchOK \in BOOLEAN :
       LET b == buildTokenParams(Catalog, tokenName, zoneID, permissionInputs,
                                 expiresOn, allowedCIDRs)
       IN  IF ~fetchOK
           THEN Fail("FetchPermissionGroups") /\ UNCHANGED <<matchHanded, previewed>>
           ELSE /\ matchHanded' = Append(matchHanded, permissionInputs)
                /\ IF b.err # "" THEN Fail(b.err) /\ previewed' = previewed
                   ELSE Goto("done") /\ previewed' = Append(previewed, b.params)
  /\ UNCHANGED <<unitVars, inputVars, flags, permissionsProvided, allowCIDRsProvided, zoneVars,
                 permVars, nameVars, cidrVars, renders, requests, cidrHanded,
                 varsHanded>>

\* lines 327-344 with Client.CreateTokenWithPolicies
SubmitPolicies ==
  /\ pc = "create"
  /\ ~IsDryRun(flags)
  /\ UsePolicies(renderedPolicies)
  /\ LET b == buildTokenParamsFromPolicies(tokenName, ConvertPolicies(renderedPolicies),
                                           expiresOn, allowedCIDRs)
     IN  IF b.err # ""
         THEN Fail(b.err) /\ requests' = requests
         ELSE /\ requests' = Append(requests, b.params)
              /\ \E createOK \in BOOLEAN :
                   IF createOK THEN Goto("done") ELSE Fail("CreateToken")
  /\ UNCHANGED <<unitVars, inputVars, flags, permissionsProvided, allowCIDRsProvided, zoneVars,
                 permVars, nameVars, cidrVars, fetches, renders, cidrHanded,
                 matchHanded, varsHanded, previewed>>

\* lines 345-347 with Client.CreateToken
SubmitPermissions ==
  /\ pc = "create"
  /\ ~IsDryRun(flags)
  /\ ~UsePolicies(renderedPolicies)
  /\ fetches' = fetches + 1
  /\ \E fetchOK \in BOOLEAN :
       LET b == buildTokenParams(Catalog, tokenName, zoneID, permissionInputs,
                                 expiresOn, allowedCIDRs)
       IN  IF ~fetchOK
           THEN /\ Fail("FetchPermissionGroups")
                /\ UNCHANGED <<matchHanded, requests>>
           ELSE /\ matchHanded' = Append(matchHanded, permissionInputs)
                /\ IF b.err # ""
                   THEN Fail(b.err) /\ requests' = requests
                   ELSE /\ requests' = Append(requests, b.params)
                        /\ \E createOK \in BOOLEAN :
                             IF createOK THEN Goto("done") ELSE Fail("CreateToken")
  /\ UNCHANGED <<unitVars, inputVars, flags, permissionsProvided, allowCIDRsProvided, zoneVars,
                 permVars, nameVars, cidrVars, renders, cidrHanded, varsHanded,
                 previewed>>

Next ==
  \/ ResolveZone
  \/ ApplyZoneConfig
  \/ GatherPermissions
  \/ ResolveCIDRs
  \/ DryRun
  \/ SubmitPolicies
  \/ SubmitPermissions

Spec == Init /\ [][Next]_vars

\* run() is sequential code: every step that can be taken is taken
FairSpec == Spec /\ WF_vars(Next)

----------------------------------------------------------------------------
(* Package functions called on their own, the way their unit tests call    *)
(* them: call holds the function and its arguments, result what it         *)
(* returned.                                                               *)

SeqsUpTo(S, n) == UNION {[1..k -> S] : k \in 0..n}

\* run() is not executing
NoRun ==
  /\ argv = Argv(<<>>, <<>>, <<>>, <<>>, <<>>, <<>>, FALSE, NoVars)
  /\ file = ConfigFile("missing", <<>>, <<>>, <<>>)
  /\ pc = "none"
  /\ flags = ParsedFlags(argv)
  /\ permissionsProvided = FALSE
  /\ allowCIDRsProvided = FALSE
  /\ zoneID = <<>>
  /\ resolvedZoneName = <<>>
  /\ zoneConfig = <<>>
  /\ renderedPolicies = <<>>
  /\ permissionInputs = <<>>
  /\ creationTime = 0
  /\ tokenName = <<>>
  /\ allowedCIDRs = <<>>
  /\ ipRestrictionDisabled = FALSE
  /\ expiresOn = <<>>
  /\ err = ""
  /\ fetches = 0
  /\ renders = 0
  /\ requests = <<>>
  /\ cidrHanded = <<>>
  /\ matchHanded = <<>>
  /\ varsHanded = <<>>
  /\ previewed = <<>>

runVars == <<argv, file, pc, flags, permissionsProvided, allowCIDRsProvided, zoneVars,
             permVars, nameVars, cidrVars, err, callVars>>

Pending(fn) == pc = "none" /\ result = <<>> /\ call.fn = fn

Return(value) == result' = <<value>> /\ UNCHANGED <<call, runVars>>

(* cmd/cftoken: normalizeCIDRList *)

PaddedCidrB == <<" ">> \o CidrB \o <<" ">>
PaddedSentinel == <<" ">> \o SentinelCIDR

CIDREntries ==
  {CidrA, PaddedCidrB, <<>>, <<" ">>, SentinelCIDR, PaddedSentinel, CidrBad}

CIDRInit ==
  /\ NoRun
  /\ \E values \in SeqsUpTo(CIDREntries, MaxCIDRList) :
        call = [fn |-> "normalizeCIDRList", args |-> <<values>>]
  /\ result = <<>>

CallNormalizeCIDRList ==
  /\ Pending("normalizeCIDRList")
  /\ Return(normalizeCIDRList(call.args[1]))

CIDRNext == CallNormalizeCIDRList

CIDRSpec == CIDRInit /\ [][CIDRNext]_vars

(* internal/cloudflare: matchPermissionGroups *)

CatalogEntry(id, name, key) == [ID |-> id, Name |-> name, Key |-> key]

\* p4 has no name and no key, p5 has the id of p1 in another spelling as its
\* name and the name of p1 in another spelling as its key
CatalogEntries ==
  {Catalog[1], Catalog[2],
   CatalogEntry(<<"p","4">>, <<>>, <<>>),
   CatalogEntry(<<"p","5">>, <<"P","-","1">>, <<"z","o","n","e","_","r","e","a","d">>)}

PermissionNames ==
  {ZoneReadName, DnsWriteName, <<"P","1">>, UnknownName, <<" ">>}

MatchInit ==
  /\ NoRun
  /\ \E groups \in SeqsUpTo(CatalogEntries, MaxCatalog) :
     \E inputs \in SeqsUpTo(PermissionNames, MaxPermissionInputs) :
        call = [fn |-> "matchPermissionGroups", args |-> <<groups, inputs>>]
  /\ result = <<>>

CallMatchPermissionGroups ==
  /\ Pending("matchPermissionGroups")
  /\ Return(matchPermissionGroups(call.args[1], call.args[2]))

MatchNext == CallMatchPermissionGroups

MatchSpec == MatchInit /\ [][MatchNext]_vars

(* internal/template: RenderPolicies *)

TemplatePaths == {"", "policy.tmpl", "absent.tmpl"}

RenderVars == VarMaps \cup {("ZoneID" :> ZoneIdA) @@ ("Other" :> ZoneIdB)}

RenderInit ==
  /\ NoRun
  /\ \E path \in TemplatePaths : \E inline \in {""} \cup TemplateTexts :
     \E tvars \in RenderVars :
        call = [fn |-> "RenderPolicies", args |-> <<path, inline, tvars>>]
  /\ result = <<>>

CallRenderPolicies ==
  /\ Pending("RenderPolicies")
  /\ Return(RenderPolicies(call.args[1], call.args[2], call.args[3]))

RenderNext == CallRenderPolicies

RenderSpec == RenderInit /\ [][RenderNext]_vars

(* internal/cloudflare: normalizeKey *)

KeyChars == {"A", "b", " ", "\t", "_", "-", ":", "."}

KeyInit ==
  /\ NoRun
  /\ \E s \in SeqsUpTo(KeyChars, MaxKeyLen) :
        call = [fn |-> "normalizeKey", args |-> <<s>>]
  /\ result = <<>>

CallNormalizeKey ==
  /\ Pending("normalizeKey")
  /\ Return(normalizeKey(call.args[1]))

KeyNext == CallNormalizeKey

KeySpec == KeyInit /\ [][KeyNext]_vars

(* internal/config: LoadZoneConfig and ResolveZoneID against one config.json *)

ZoneNameExample == <<"e","x","a","m","p","l","e",".","c","o","m">>
ZoneNameExampleDot == <<"E","x","a","m","p","l","e",".","C","O","M",".">>

ConfiguredNames == {ZoneNameExample, ZoneNameExampleDot, ZoneNameProd}
RequestedNames == ConfiguredNames \cup {UnknownName, <<" ">>}

ZoneEntries ==
  {StringEntry(ZoneIdA), StringEntry(<<" ">> \o ZoneIdB), StringEntry(<<>>),
   OtherEntry, BadObjectEntry} \cup
  {ObjectEntry(ZoneRec(ZoneIdC, zp, zc, <<>>, "", "", NoVars, inh)) :
     zp \in {<<>>, <<DnsWriteName>>}, zc \in {<<>>, <<CidrA>>}, inh \in BOOLEAN}

ZoneTables ==
  UNION {[names -> ZoneEntries] :
           names \in {n \in SUBSET ConfiguredNames : Cardinality(n) \in 1..MaxZones}}

ConfigFiles ==
  {ConfigFile("missing", <<>>, <<>>, <<>>),
   ConfigFile("malformed", <<>>, <<>>, <<>>),
   ConfigFile("ok", <<ZoneReadName>>, <<CidrB>>, <<>>)} \cup
  {ConfigFile("ok", dp, dc, <<zones>>) :
     dp \in {<<>>, <<ZoneReadName>>}, dc \in {<<>>, <<CidrB>>}, zones \in ZoneTables}

ConfigInit ==
  /\ NoRun
  /\ \E f \in ConfigFiles :
        \/ \E name \in RequestedNames : \E fn \in {"LoadZoneConfig", "ResolveZoneID"} :
              call = [fn |-> fn, args |-> <<f, name>>]
        \/ \E fn \in {"ZoneMap", "ListConfiguredZones"} :
              call = [fn |-> fn, args |-> <<f>>]
  /\ result = <<>>

CallLoadZoneConfig ==
  /\ Pending("LoadZoneConfig")
  /\ Return(LoadZoneConfig(call.args[1], call.args[2]))

CallResolveZoneID ==
  /\ Pending("ResolveZoneID")
  /\ \E zm \in ZoneMap(call.args[1]) : Return(ResolveZoneID(zm, call.args[2]))

CallZoneMap ==
  /\ Pending("ZoneMap")
  /\ \E zm \in ZoneMap(call.args[1]) : Return(zm)

CallListConfiguredZones ==
  /\ Pending("ListConfiguredZones")
  /\ \E listed \in ListConfiguredZones(call.args[1]) : Return(listed)

ConfigNext ==
  \/ CallLoadZoneConfig
  \/ CallResolveZoneID
  \/ CallZoneMap
  \/ CallListConfiguredZones

ConfigSpec == ConfigInit /\ [][ConfigNext]_vars

----------------------------------------------------------------------------
(* Properties of run() *)

\* the zone record run() resolved has a template
HasTemplate == zoneConfig # <<>> /\
               (zoneConfig[1].TemplateFile # "" \/ zoneConfig[1].TemplateInline # "")

\* ApplyZoneConfig has completed without failing
ZoneApplied == pc \in {"permissions", "cidrs", "create"} \/ (pc = "done" /\ tokenName # <<>>)

\* GatherPermissions has completed without failing
PermissionsGathered == tokenName # <<>>

\* ResolveCIDRs has been left
CIDRStepDone == tokenName # <<>> /\ pc # "cidrs"

\* some entry of a list handed to normalizeCIDRList is the sentinel
SentinelHanded ==
  \E h \in 1..Len(cidrHanded) : \E j \in 1..Len(cidrHanded[h]) :
     TrimSpace(cidrHanded[h][j]) = SentinelCIDR

\* C1: every request that reaches Tokens.New has at least one policy and, unless
\* the sentinel 0.0.0.0/32 disabled IP restriction, at least one allowed CIDR.
C1_RequestWellFormed ==
  \A i \in 1..Len(requests) :
     /\ Len(requests[i].Policies) >= 1
     /\ \/ requests[i].Condition # <<>> /\ Len(requests[i].Condition[1]) >= 1
        \/ SentinelHanded

C1_Witness ==
  /\ Len(requests) = 1
  /\ UsePolicies(renderedPolicies)
  /\ requests[1].Condition # <<>>
  /\ argv.allowCIDRs = <<>>

\* the value of -permissions as a list of names
PermissionsOverride ==
  IF TrimSpace(argv.permissions[1]) = <<>> THEN DefaultPermissionKeys
  ELSE TrimmedNonEmpty(Split(argv.permissions[1], ","))

\* C2: for permissions, allowed CIDRs, TTL, token prefix and template variables,
\* an explicitly set command-line override is the resolved value, whatever the
\* zone record and the global defaults contain.
C2_OverrideWins ==
  /\ (argv.permissions # <<>> /\ PermissionsGathered)
        => permissionInputs = PermissionsOverride
  /\ (argv.allowCIDRs # <<>> /\ cidrHanded # <<>>)
        => cidrHanded[1] = TrimmedNonEmpty(Split(argv.allowCIDRs[1], ","))
  /\ (TrimSpace(argv.tokenPrefix) # <<>> /\ tokenName # <<>>)
        => tokenName[1].prefix = TrimSpace(argv.tokenPrefix)
  /\ \A i \in 1..Len(varsHanded) : \A k \in DOMAIN argv.templateVars :
        varsHanded[i][k] = argv.templateVars[k]
  /\ (argv.ttl # <<>> /\ ZoneApplied) => flags.ttl = argv.ttl[1] * Hour

\* C3: without -permissions and without a template, the permission inputs are the
\* zone record's static permissions if it has any, otherwise default_permissions
\* if it has any, otherwise ["Zone:Read"].
C3_ZonePermissionsFirst ==
  (PermissionsGathered /\ argv.permissions = <<>> /\ zoneConfig # <<>> /\ ~HasTemplate)
     => permissionInputs =
          (IF TrimmedNonEmpty(zoneConfig[1].Permissions) # <<>>
           THEN TrimmedNonEmpty(zoneConfig[1].Permissions)
           ELSE IF TrimmedNonEmpty(file.DefaultPermissions) # <<>>
           THEN TrimmedNonEmpty(file.DefaultPermissions)
           ELSE DefaultPermissionKeys)

\* the request policy carries the rendered policy: effect ("" read as allow),
\* resources and permission-group ids
SamePolicy(sent, rendered) ==
  /\ sent.Effect = (IF rendered.Effect = "" THEN "allow" ELSE rendered.Effect)
  /\ sent.Resources = {[key |-> r.key, value |-> r.value] : r \in rendered.Resources}
  /\ Len(sent.PermissionGroups) = Len(rendered.PermissionGroups)
  /\ \A j \in 1..Len(sent.PermissionGroups) :
        sent.PermissionGroups[j] = rendered.PermissionGroups[j].ID

\* C4: when the zone record has a template and -permissions is not given, the
\* submitted policies are exactly the rendered ones and matchPermissionGroups is
\* not used to build the submitted token.
C4_TemplateVerbatim ==
  (HasTemplate /\ argv.permissions = <<>> /\ requests # <<>>)
     => /\ matchHanded = <<>>
        /\ Len(requests[1].Policies) = Len(renderedPolicies)
        /\ \A i \in 1..Len(renderedPolicies) :
              SamePolicy(requests[1].Policies[i], renderedPolicies[i])

\* the allow-list source C5 names, entries trimmed and blank entries dropped
ChosenCIDRs ==
  IF argv.allowCIDRs # <<>> THEN TrimmedNonEmpty(Split(argv.allowCIDRs[1], ","))
  ELSE IF zoneConfig # <<>> /\ Len(zoneConfig[1].AllowedCIDRs) > 0
  THEN TrimmedNonEmpty(zoneConfig[1].AllowedCIDRs)
  ELSE TrimmedNonEmpty(file.DefaultAllowedCIDRs)

\* every entry of the list parses and none is the sentinel
AllPlainCIDRs(list) ==
  \A j \in 1..Len(list) : ParseCIDROk(list[j]) /\ list[j] # SentinelCIDR

NoCIDRErrors == {"NoCIDRsProvided", "NoCIDRsConfigured"}

\* C5: the list handed to normalizeCIDRList is the -allow-cidrs value when the
\* flag is given, else the zone record's CIDRs when it has any, else
\* default_allowed_cidrs; when that list holds no CIDR and no sentinel the run
\* fails with a no-CIDRs error.
C5_CIDRSource ==
  /\ \A h \in 1..Len(cidrHanded) : cidrHanded[h] = ChosenCIDRs
  /\ (CIDRStepDone /\ ChosenCIDRs = <<>> /\ file.state # "malformed")
        => pc = "done" /\ err \in NoCIDRErrors
  /\ (CIDRStepDone /\ ChosenCIDRs # <<>> /\ AllPlainCIDRs(ChosenCIDRs))
        => err \notin NoCIDRErrors /\ allowedCIDRs = ChosenCIDRs

C5_Witness ==
  /\ argv.allowCIDRs = <<<<>>>>
  /\ zoneConfig # <<>> /\ Len(zoneConfig[1].AllowedCIDRs) > 0
  /\ Len(file.DefaultAllowedCIDRs) > 0
  /\ cidrHanded = <<<<>>>>
  /\ err = "NoCIDRsProvided"

\* C6: without a -ttl override the effective TTL is the zone record's ttl
\* whenever the record specifies one, and 8h only when it specifies none.
C6_ZoneTTL ==
  (argv.ttl = <<>> /\ ZoneApplied)
     => IF zoneConfig # <<>> /\ zoneConfig[1].TTL # <<>>
        THEN /\ ParseDuration(zoneConfig[1].TTL).ok
             /\ flags.ttl = ParseDuration(zoneConfig[1].TTL).d
        ELSE flags.ttl = DefaultTTL

\* C7: a submitted request has no expiry when the effective TTL is zero and the
\* expiry creationTime + TTL when it is positive, creationTime being the instant
\* whose stamp is in the token name.
C7_Expiry ==
  \A i \in 1..Len(requests) :
     /\ requests[i].Name[1].stamp = FormatStamp(creationTime)
     /\ flags.ttl = 0 => requests[i].ExpiresOn = <<>>
     /\ flags.ttl > 0 => requests[i].ExpiresOn = <<creationTime + flags.ttl>>

C7_Witness ==
  /\ Len(requests) = 1
  /\ flags.ttl > 0
  /\ creationTime > 0
  /\ requests[1].Name[1].stamp # creationTime
  /\ requests[1].ExpiresOn = <<creationTime + flags.ttl>>

\* values that fail validation: a malformed CIDR in a list without the sentinel,
\* a permission name no catalog entry matches, a zone ttl that is not a
\* duration, a template that rendered no policy
InvalidValueUsed ==
  \/ \E h \in 1..Len(cidrHanded) :
        /\ \E j \in 1..Len(cidrHanded[h]) : ~ParseCIDROk(cidrHanded[h][j])
        /\ \A j \in 1..Len(cidrHanded[h]) : cidrHanded[h][j] # SentinelCIDR
  \/ \E h \in 1..Len(matchHanded) : \E j \in 1..Len(matchHanded[h]) :
        FirstMatch(Catalog, matchHanded[h][j]) = 0
  \/ zoneConfig # <<>> /\ zoneConfig[1].TTL # <<>> /\ ~ParseDuration(zoneConfig[1].TTL).ok
  \/ renders > 0 /\ ZoneApplied /\ renderedPolicies = <<>>

\* C8: whenever a configured or supplied value is invalid the run returns an
\* error instead of continuing with a fallback value.
C8_FailClosed ==
  (pc = "done" /\ PermissionsGathered /\ InvalidValueUsed) => err # ""

\* the errors of the resolution steps (everything but a failed creation call)
ResolutionErrors ==
  {"ResolveZone", "MissingZoneID", "MissingTokenPrefix", "RenderTemplate",
   "LoadDefaultPermissions", "ParseCIDRs", "DefaultCIDRsInvalid", "LoadDefaultCIDRs",
   "NoCIDRsProvided", "NoCIDRsConfigured", "FetchPermissionGroups",
   "NoPermissionsSpecified", "PermissionNotFound", "NoPolicies",
   "InvalidPolicyEffect"}

\* a resolution step of this run cannot have succeeded, judged from its inputs
StepFailed ==
  \/ zoneID = <<>>
  \/ flags.tokenPrefix = <<>>
  \/ \E h \in 1..Len(cidrHanded) :
        normalizeCIDRList(cidrHanded[h]).err # ""
        \/ (~SentinelHanded /\ normalizeCIDRList(cidrHanded[h]).cidrs = <<>>)
  \/ \E h \in 1..Len(matchHanded) :
        matchHanded[h] = <<>> \/
        \E j \in 1..Len(matchHanded[h]) : FirstMatch(Catalog, matchHanded[h][j]) = 0
  \/ /\ ~argv.dryRun /\ CIDRStepDone
     /\ \E i \in 1..Len(renderedPolicies) :
           renderedPolicies[i].Effect \notin {"", "allow", "deny"}

\* C9: when a resolution step fails, run returns an error and Tokens.New is
\* never called in that run.
C9_NoCallAfterFailure ==
  /\ err \in ResolutionErrors => (pc = "done" /\ requests = <<>>)
  /\ (pc = "done" /\ StepFailed) => (err \in ResolutionErrors /\ requests = <<>>)

C9_Witness ==
  /\ pc = "done"
  /\ err = "InvalidPolicyEffect"
  /\ requests = <<>>
  /\ allowedCIDRs # <<>>

\* C10: with -dry-run Tokens.New is never called, and a dry run that reaches the
\* preview fetches the permission catalog.
C10_DryRunNeverCreates ==
  argv.dryRun =>
     /\ requests = <<>>
     /\ (pc = "done" /\ CIDRStepDone /\ err \notin NoCIDRErrors \cup
            {"ParseCIDRs", "DefaultCIDRsInvalid", "LoadDefaultCIDRs"})
           => fetches = 1
     /\ previewed # <<>> => fetches = 1

C10_Witness ==
  /\ argv.dryRun
  /\ pc = "done"
  /\ err = ""
  /\ fetches = 1
  /\ Len(previewed) = 1
  /\ requests = <<>>

\* what a run without -dry-run builds for Tokens.New from the values run() holds
\* at line 317
SubmissionOf ==
  IF UsePolicies(renderedPolicies)
  THEN buildTokenParamsFromPolicies(tokenName, ConvertPolicies(renderedPolicies),
                                    expiresOn, allowedCIDRs)
  ELSE buildTokenParams(Catalog, tokenName, zoneID, permissionInputs, expiresOn,
                        allowedCIDRs)

\* the dry run reached PreviewToken and the catalog was delivered
PreviewAttempted ==
  argv.dryRun /\ pc = "done" /\ fetches = 1 /\ err # "FetchPermissionGroups"

\* C11: the specification a dry run builds and reports is the one a run without
\* -dry-run would submit from the same flags, configuration, catalog and creation
\* time, and the dry run succeeds exactly when that run would reach the creation
\* call, template zones included.
C11_DryRunSameSpecification ==
  PreviewAttempted =>
     /\ (err = "") <=> (SubmissionOf.err = "")
     /\ previewed # <<>> => previewed[1] = SubmissionOf.params

\* the key set and the values C12 names for the template variable context
LayeredKeys ==
  DOMAIN argv.templateVars \cup DOMAIN zoneConfig[1].Variables \cup
  (IF zoneConfig[1].ZoneID # <<>> THEN {"ZoneID"} ELSE {})

LayeredValue(k) ==
  IF k \in DOMAIN argv.templateVars THEN argv.templateVars[k]
  ELSE IF k \in DOMAIN zoneConfig[1].Variables THEN zoneConfig[1].Variables[k]
  ELSE zoneConfig[1].ZoneID

\* the inline template whose only resource is the zone named by {{ .ZoneID }}
RenderedZoneTemplate ==
  /\ renders = 1
  /\ ZoneApplied
  /\ zoneConfig[1].TemplateInline = "tpl-zone"

----------------------------------------------------------------------------
(* Properties of the package functions *)

\* the call of fn has returned
Returned(fn) == call.fn = fn /\ result # <<>>

\* every entry is blank or a valid CIDR other than the sentinel
ValidNoSentinel(values) ==
  \A i \in 1..Len(values) :
     LET t == TrimSpace(values[i])
     IN  t = <<>> \/ (ParseCIDROk(t) /\ t # SentinelCIDR)

\* C13: for a list of valid CIDRs without the sentinel, normalizeCIDRList returns
\* disabled=false, no error and the entries trimmed, empty ones dropped, in the
\* original order and with duplicates kept.
C13_ValidListPreserved ==
  (Returned("normalizeCIDRList") /\ ValidNoSentinel(call.args[1])) =>
     /\ result[1].err = ""
     /\ ~result[1].disabled
     /\ result[1].cidrs = TrimmedNonEmpty(call.args[1])

C13_Witness ==
  /\ Returned("normalizeCIDRList")
  /\ ValidNoSentinel(call.args[1])
  /\ Len(call.args[1]) = 3
  /\ \E i \in 1..3 : TrimSpace(call.args[1][i]) = <<>>
  /\ \E i \in 1..3 : call.args[1][i] # <<>> /\ TrimSpace(call.args[1][i]) # call.args[1][i]
  /\ Len(result[1].cidrs) = 2
  /\ result[1].cidrs[1] = result[1].cidrs[2]

\* some entry of the list is the sentinel
ContainsSentinel(values) ==
  \E i \in 1..Len(values) : TrimSpace(values[i]) = SentinelCIDR

\* C14: for a list holding the sentinel 0.0.0.0/32 at any position,
\* normalizeCIDRList returns the empty list, disabled=true and no error, whether
\* or not the entries before and after the sentinel are valid CIDRs.
C14_SentinelAnywhere ==
  (Returned("normalizeCIDRList") /\ ContainsSentinel(call.args[1])) =>
     /\ result[1].err = ""
     /\ result[1].disabled
     /\ result[1].cidrs = <<>>

\* no entry of the catalog matches the input
Unmatched(groups, in) == \A k \in 1..Len(groups) : ~GroupMatches(in, groups[k])

\* C15: matchPermissionGroups fails as a whole: for an empty input list, or when
\* some input matches no catalog entry, it returns an error (naming the first
\* unresolved input) with no ids and no entries, whatever matched before.
C15_AllOrNothing ==
  Returned("matchPermissionGroups") =>
     LET groups == call.args[1]
         inputs == call.args[2]
         r      == result[1]
     IN  /\ inputs = <<>> =>
              r.err = "NoPermissionsSpecified" /\ r.refs = <<>> /\ r.matched = <<>>
         /\ (\E i \in 1..Len(inputs) : Unmatched(groups, inputs[i])) =>
              /\ r.err = "PermissionNotFound"
              /\ r.refs = <<>>
              /\ r.matched = <<>>
              /\ \E i \in 1..Len(inputs) :
                    /\ r.bad = inputs[i]
                    /\ Unmatched(groups, inputs[i])
                    /\ \A j \in 1..(i - 1) : ~Unmatched(groups, inputs[j])

C15_Witness ==
  /\ Returned("matchPermissionGroups")
  /\ Len(call.args[2]) >= 2
  /\ ~Unmatched(call.args[1], call.args[2][1])
  /\ Unmatched(call.args[1], call.args[2][2])
  /\ result[1].err = "PermissionNotFound"
  /\ result[1].bad = call.args[2][2]
  /\ result[1].refs = <<>>

\* the positions of the catalog entries the input matches
MatchingEntries(groups, in) == {k \in 1..Len(groups) : GroupMatches(in, groups[k])}

\* C16: when the input list is non-empty and every input matches exactly one
\* catalog entry, matchPermissionGroups succeeds and its i-th id and i-th entry
\* are those of the entry the i-th input matches, repeated inputs included.
C16_OneIdPerInput ==
  LET groups == call.args[1]
      inputs == call.args[2]
      r      == result[1]
  IN  (/\ Returned("matchPermissionGroups")
       /\ inputs # <<>>
       /\ \A i \in 1..Len(inputs) : Cardinality(MatchingEntries(groups, inputs[i])) = 1)
      => /\ r.err = ""
         /\ Len(r.refs) = Len(inputs)
         /\ Len(r.matched) = Len(inputs)
         /\ \A i \in 1..Len(inputs) : \A k \in MatchingEntries(groups, inputs[i]) :
               r.matched[i] = groups[k] /\ r.refs[i] = groups[k].ID

C16_Witness ==
  /\ Returned("matchPermissionGroups")
  /\ Len(call.args[2]) = 3
  /\ \A i \in 1..3 : Cardinality(MatchingEntries(call.args[1], call.args[2][i])) = 1
  /\ call.args[2][1] = call.args[2][3]
  /\ result[1].err = ""
  /\ Len(result[1].refs) = 3
  /\ result[1].refs[1] = result[1].refs[3]
  /\ result[1].refs[1] # result[1].refs[2]

\* the zones table of the file, empty when the file has none or cannot be read
TableOf(f) ==
  IF f.state = "ok" /\ f.Zones # <<>> THEN f.Zones[1] ELSE [k \in {} |-> OtherEntry]

\* the configured names that are the requested name once both are normalised
SameZoneKeys(f, name) ==
  {k \in DOMAIN TableOf(f) : normalizeZoneName(k) = normalizeZoneName(name)}

\* the requested name designates one configured zone and that zone has an id
DesignatesZone(f, name) ==
  /\ normalizeZoneName(name) # <<>>
  /\ Cardinality(SameZoneKeys(f, name)) = 1
  /\ \A k \in SameZoneKeys(f, name) : ZoneEntryID(TableOf(f)[k]) # <<>>

\* C17: LoadZoneConfig and ResolveZoneID compare zone names after trimming,
\* lowercasing and removing a trailing '.', so a zone configured as "example.com"
\* is found under "Example.COM." and the other way round.
C17_NormalizedLookup ==
  /\ (Returned("ResolveZoneID") /\ DesignatesZone(call.args[1], call.args[2])) =>
        /\ result[1].err = ""
        /\ \A k \in SameZoneKeys(call.args[1], call.args[2]) :
              result[1].id = ZoneEntryID(TableOf(call.args[1])[k])
  /\ (Returned("LoadZoneConfig") /\ DesignatesZone(call.args[1], call.args[2])) =>
        /\ result[1].err = ""
        /\ \A k \in SameZoneKeys(call.args[1], call.args[2]) :
              TrimSpace(result[1].zoneID) = ZoneEntryID(TableOf(call.args[1])[k])

\* the requested name is a key of the zones table
Configured(f, name) == name \in DOMAIN TableOf(f)

\* the record as configured, but for the two lists inherit_defaults may fill
SameRecord(zc, rec) ==
  /\ zc.ZoneID = rec.ZoneID
  /\ zc.TTL = rec.TTL
  /\ zc.TemplateFile = rec.TemplateFile
  /\ zc.TemplateInline = rec.TemplateInline
  /\ zc.Variables = rec.Variables
  /\ zc.InheritDefaults = rec.InheritDefaults

\* C18: LoadZoneConfig returns (id, nil, no error) for a bare string entry,
\* (record.zone_id, record, no error) for an extended object, and an error with
\* no id and no record for a name that is not in the table or whose entry is
\* neither of the two.
C18_LoadZoneConfigResults ==
  Returned("LoadZoneConfig") =>
     LET f     == call.args[1]
         name  == call.args[2]
         r     == result[1]
         entry == TableOf(f)[name]
     IN  /\ (Configured(f, name) /\ entry.kind = "string") =>
               r.err = "" /\ r.zoneID = entry.id /\ r.config = <<>>
         /\ (Configured(f, name) /\ entry.kind = "object") =>
               /\ r.err = ""
               /\ r.zoneID = entry.rec.ZoneID
               /\ Len(r.config) = 1
               /\ SameRecord(r.config[1], entry.rec)
         /\ (~Configured(f, name) \/ entry.kind \notin {"string", "object"}) =>
               r.err # "" /\ r.zoneID = <<>> /\ r.config = <<>>

C18_Witness ==
  /\ Returned("LoadZoneConfig")
  /\ Configured(call.args[1], call.args[2])
  /\ TableOf(call.args[1])[call.args[2]].kind = "string"
  /\ Cardinality(DOMAIN TableOf(call.args[1])) = 2
  /\ result[1].err = ""
  /\ result[1].zoneID # <<>>
  /\ result[1].config = <<>>

\* C19: in the record LoadZoneConfig returns, an empty permissions list is the
\* global default_permissions and an empty allowed_cidrs list the global
\* default_allowed_cidrs when inherit_defaults is true, a non-empty list is the
\* configured one, and without inherit_defaults both lists are as configured.
C19_InheritDefaults ==
  (Returned("LoadZoneConfig") /\ result[1].config # <<>>) =>
     LET f   == call.args[1]
         rec == TableOf(f)[call.args[2]].rec
         zc  == result[1].config[1]
     IN  IF rec.InheritDefaults
         THEN /\ zc.Permissions =
                    (IF rec.Permissions = <<>> THEN f.DefaultPermissions
                     ELSE rec.Permissions)
              /\ zc.AllowedCIDRs =
                    (IF rec.AllowedCIDRs = <<>> THEN f.DefaultAllowedCIDRs
                     ELSE rec.AllowedCIDRs)
         ELSE zc.Permissions = rec.Permissions /\ zc.AllowedCIDRs = rec.AllowedCIDRs

C19_Witness ==
  /\ Returned("LoadZoneConfig")
  /\ result[1].config # <<>>
  /\ TableOf(call.args[1])[call.args[2]].rec.InheritDefaults
  /\ TableOf(call.args[1])[call.args[2]].rec.Permissions = <<>>
  /\ TableOf(call.args[1])[call.args[2]].rec.AllowedCIDRs # <<>>
  /\ call.args[1].DefaultPermissions # <<>>
  /\ call.args[1].DefaultAllowedCIDRs # <<>>
  /\ result[1].config[1].Permissions = call.args[1].DefaultPermissions
  /\ result[1].config[1].AllowedCIDRs # call.args[1].DefaultAllowedCIDRs

----------------------------------------------------------------------------
(* Properties of run(), continued *)

\* the zone name run() resolved from the configuration, <<>> when it did not
NameFromConfiguration ==
  IF /\ TrimSpace(argv.zoneID) = <<>>
     /\ TrimSpace(argv.zoneName) # <<>>
     /\ LoadZoneConfig(file, TrimSpace(argv.zoneName)).err = ""
  THEN TrimSpace(argv.zoneName) ELSE <<>>

\* the prefix C20 names
ExpectedPrefix ==
  IF TrimSpace(argv.tokenPrefix) # <<>> THEN TrimSpace(argv.tokenPrefix)
  ELSE NameFromConfiguration

\* C20: the token name is the prefix (-token-prefix if non-empty, else the zone
\* name resolved from the configuration) followed by the creation time to the
\* second; with a zone id and no prefix the run fails with the missing-prefix
\* error and nothing is submitted.
C20_TokenName ==
  /\ tokenName # <<>> =>
        /\ ExpectedPrefix # <<>>
        /\ tokenName[1] = [prefix |-> ExpectedPrefix, stamp |-> FormatStamp(creationTime)]
  /\ \A i \in 1..Len(requests) : requests[i].Name = tokenName
  /\ \A i \in 1..Len(previewed) : previewed[i].Name = tokenName
  /\ (pc # "resolveZone" /\ zoneID # <<>> /\ ExpectedPrefix = <<>>) =>
        /\ pc = "done"
        /\ err = "MissingTokenPrefix"
        /\ tokenName = <<>>
        /\ requests = <<>>

C20_Witness ==
  /\ Len(requests) = 1
  /\ TrimSpace(argv.tokenPrefix) = <<>>
  /\ requests[1].Name[1].prefix = TrimSpace(argv.zoneName)
  /\ requests[1].Name[1].stamp = FormatStamp(creationTime)
  /\ creationTime > 0

----------------------------------------------------------------------------
(* Properties of the package functions, continued *)

\* the non-blank entries that are not valid CIDRs, trimmed, in list order
MalformedEntries(values) ==
  SelectSeq(TrimmedNonEmpty(values), LAMBDA c : ~ParseCIDROk(c))

\* C21: for a list without the sentinel that holds an entry which is not a valid
\* CIDR, normalizeCIDRList returns an error naming the first such entry, no list
\* at all and disabled=false.
C21_MalformedCIDR ==
  (/\ Returned("normalizeCIDRList")
   /\ ~ContainsSentinel(call.args[1])
   /\ MalformedEntries(call.args[1]) # <<>>)
  => /\ result[1].err = "InvalidCIDR"
     /\ result[1].bad = MalformedEntries(call.args[1])[1]
     /\ result[1].cidrs = <<>>
     /\ ~result[1].disabled

C21_Witness ==
  /\ Returned("normalizeCIDRList")
  /\ ~ContainsSentinel(call.args[1])
  /\ Len(call.args[1]) = 3
  /\ ParseCIDROk(TrimSpace(call.args[1][1]))
  /\ ~ParseCIDROk(TrimSpace(call.args[1][2]))
  /\ ParseCIDROk(TrimSpace(call.args[1][3]))
  /\ result[1].err = "InvalidCIDR"
  /\ result[1].cidrs = <<>>

\* the three strategies, one at a time
MatchesByID(in, group) == EqualFold(in, group.ID)
MatchesByName(in, group) == normalizeKey(group.Name) = normalizeKey(in)
MatchesByKey(in, group) == group.Key # <<>> /\ normalizeKey(group.Key) = normalizeKey(in)

\* the entries the priority order of C22 allows for the input: those matching by
\* id if there are any, else those matching by name, else those matching by key
PreferredEntries(groups, in) ==
  LET all   == {groups[k] : k \in 1..Len(groups)}
      byID   == {g \in all : MatchesByID(in, g)}
      byName == {g \in all : MatchesByName(in, g)}
      byKey  == {g \in all : MatchesByKey(in, g)}
  IN  IF byID # {} THEN byID ELSE IF byName # {} THEN byName ELSE byKey

C23_Idempotent ==
  Returned("normalizeKey") => normalizeKey(result[1]) = result[1]

\* the five characters the normalisation deletes
StrippedChars == {" ", "_", "-", ":", "."}

\* lowercase every character, then keep those that are not deleted
LowerAndStrip(s) ==
  SelectSeq([i \in 1..Len(s) |-> LowerChar(s[i])], LAMBDA c : c \notin StrippedChars)

WithoutSurroundingSpace(s) ==
  LET inner == {i \in 1..Len(s) : ~IsSpace(s[i])}
  IN  IF inner = {} THEN <<>>
      ELSE SubSeq(s, CHOOSE i \in inner : \A j \in inner : i <= j,
                     CHOOSE i \in inner : \A j \in inner : i >= j)

C25_ExactlyOneSource ==
  Returned("RenderPolicies") =>
     /\ (call.args[1] = "" /\ call.args[2] = "") =>
           result[1].err = "NoTemplateSource" /\ result[1].policies = <<>>
     /\ result[1].err = "" => (call.args[1] = "") # (call.args[2] = "")

\* the document the call's template renders, when it gets as far as rendering
RenderedDocument ==
  LET text == IF call.args[2] # "" THEN call.args[2] ELSE ReadFile(call.args[1]).text
  IN  TemplateExecute(text, call.args[3])

\* the call reads, parses and executes its template without error
RendersText ==
  /\ call.args[1] # "" \/ call.args[2] # ""
  /\ call.args[2] # "" \/ ReadFile(call.args[1]).ok
  /\ TemplateParseOk(IF call.args[2] # "" THEN call.args[2]
                     ELSE ReadFile(call.args[1]).text)
  /\ RenderedDocument.ok

\* C26: when the rendered text is not a JSON array of policy documents,
\* RenderPolicies returns an error carrying the rendered text and no policies;
\* it returns without error only when the text is such an array.
C26_OutputMustBeArray ==
  (Returned("RenderPolicies") /\ RendersText) =>
     /\ RenderedDocument.json # "array" =>
           /\ result[1].err = "TemplateOutputInvalid"
           /\ result[1].rendered # <<>>
           /\ result[1].policies = <<>>
     /\ result[1].err = "" => RenderedDocument.json = "array"

\* C27: in one run the permission catalog is fetched at most once, a policy
\* template is rendered at most once, and the creation call is made at most
\* once: a creation that failed is not tried again.
C27_AtMostOnce ==
  /\ fetches <= 1
  /\ renders <= 1
  /\ Len(requests) <= 1
  /\ err = "CreateToken" => pc = "done" /\ Len(requests) = 1

\* a run that fetched the catalog, submitted its request and saw creation fail
C27_Witness ==
  /\ pc = "done"
  /\ err = "CreateToken"
  /\ fetches = 1
  /\ Len(requests) = 1

\* the entries of a configured list that are not blank, in their order
NonBlankPositions(values) == {i \in 1..Len(values) : ~(\A j \in 1..Len(values[i]) : IsSpace(values[i][j]))}

\* out is values with blank entries removed, the others trimmed, order preserved
IsTrimmedSelection(out, values) ==
  /\ Len(out) = Cardinality(NonBlankPositions(values))
  /\ \A i \in NonBlankPositions(values) :
        out[Cardinality({j \in NonBlankPositions(values) : j <= i})] = TrimSpace(values[i])

\* what a default loader must return for the configured list values
DefaultsContract(r, values) ==
  IF NonBlankPositions(values) = {}
  THEN r.err = "NotExist" /\ r.list = <<>>
  ELSE r.err = "" /\ IsTrimmedSelection(r.list, values)

\* C28: LoadDefaultPermissions and LoadDefaultAllowedCIDRs return the configured
\* entries trimmed, blank ones removed, order preserved; an absent or all-blank
\* list gives no list and the not-exist error, after which run() falls back
\* to the hard-coded permissions, and fails with the no-CIDRs error when no
\* allow-list is given either.
C28_DefaultLists ==
  LET lp == LoadDefaultPermissions(file)
      lc == LoadDefaultAllowedCIDRs(file)
  IN  /\ file.state = "ok" =>
            /\ DefaultsContract(lp, file.DefaultPermissions)
            /\ DefaultsContract(lc, file.DefaultAllowedCIDRs)
      /\ lp.err = "NotExist" => err # "LoadDefaultPermissions"
      /\ ( /\ PermissionsGathered
           /\ ~permissionsProvided
           /\ lp.err = "NotExist"
           /\ TrimmedNonEmpty(Split(flags.permissions, ",")) = <<>> )
            => permissionInputs = DefaultPermissionKeys
      /\ ( /\ PermissionsGathered
           /\ pc # "cidrs"
           /\ ~allowCIDRsProvided
           /\ lc.err = "NotExist" )
            => (pc = "done" /\ err = "NoCIDRsConfigured" /\ requests = <<>>)

\* defaults with padded and blank permission entries and only blank CIDRs: the
\* permissions come back trimmed and the run stops for want of CIDRs
C28_Witness ==
  /\ pc = "done"
  /\ err = "NoCIDRsConfigured"
  /\ file.DefaultPermissions = PaddedPermissions
  /\ file.DefaultAllowedCIDRs = <<<<" ">>, <<>>>>
  /\ LoadDefaultPermissions(file).list = <<DnsWriteName, ZoneReadName>>
  /\ permissionInputs = <<DnsWriteName, ZoneReadName>>

\* C29: every (name, id) pair that ListConfiguredZones returns can be given
\* to LoadZoneConfig as the zone name: the lookup succeeds with that id.
C29_ListingAgreesWithLookup ==
  Returned("ListConfiguredZones") =>
     \A i \in 1..Len(result[1].entries) :
        LET entry  == result[1].entries[i]
            lookup == LoadZoneConfig(call.args[1], entry.Name)
        IN  lookup.err = "" /\ lookup.zoneID = entry.ID

\* what the three functions can return for the configuration of the call
Outcomes ==
  CASE call.fn = "ZoneMap" -> ZoneMap(call.args[1])
    [] call.fn = "ListConfiguredZones" -> ListConfiguredZones(call.args[1])
    [] call.fn = "ResolveZoneID" ->
         {ResolveZoneID(zm, call.args[2]) : zm \in ZoneMap(call.args[1])}
    [] OTHER -> {}

\* C30: for a fixed configuration ZoneMap, ListConfiguredZones and
\* ResolveZoneID return the same result on every call, also when two
\* configured names normalise to the same key with different ids.
C30_Deterministic ==
  (result # <<>> /\ call.fn \in {"ZoneMap", "ListConfiguredZones", "ResolveZoneID"})
     => \A other \in Outcomes : other = result[1]

====
